---- MODULE Spec2Model ----
(***************************************************************************)
(* Finite-difference wave solver of wave_sim.                              *)
(*                                                                         *)
(* Two solver variants of the repository share one grid:                   *)
(*   "timer"  : src/simulation_plugin.rs, compile-time constants, one      *)
(*              repeating timer shared by four systems;                    *)
(*   "wave2d" : src/wave_2d_simulation, run-time parameters, click events, *)
(*              pause / reset commands.                                    *)
(* Amplitudes are f32 in the program.  A grid cell is modelled as a decimal *)
(* fixed-point number: an integer count of 1/SCALE.  Sums and differences  *)
(* of cells are exact; a product of a cell with a coefficient is rounded   *)
(* to the nearest unit, as every f32 product is rounded.  Coefficients     *)
(* (Tau, Kappa, the stencil weights, the decay factor) are rationals       *)
(* <<numerator, denominator>> in lowest terms.                             *)
(***************************************************************************)
EXTENDS Integers, Sequences, FiniteSets, TLC

(***************************************************************************)
(* Bounds of the model.                                                    *)
(***************************************************************************)
\* grid width and height (320 x 180 in the program)
DimX == 9
DimY == 9
\* number of solver updates explored in the timer-driven solver
MaxTicks == 4
\* number of solver updates explored in the parameter-driven solver
MaxUpdates == 2
\* number of user inputs explored: plot clicks and uses of the panel
MaxInputs == 2
\* max_entities of the particle simulation, 1000 in the source
MaxEntities == 3

(***************************************************************************)
(* Arithmetic: rational coefficients and fixed-point amplitudes.           *)
(***************************************************************************)
\* units per 1.0 of amplitude
SCALE == 10000

RECURSIVE GCD(_, _)
GCD(a, b) == IF b = 0 THEN a ELSE GCD(b, a % b)

Abs(n) == IF n < 0 THEN -n ELSE n

\* n/d in lowest terms with a positive denominator
Rat(n, d) ==
    LET g == GCD(Abs(n), Abs(d))
        s == IF d < 0 THEN -1 ELSE 1
    IN  IF n = 0 THEN <<0, 1>> ELSE <<s * (n \div g), s * (d \div g)>>

Zero == <<0, 1>>
One == <<1, 1>>
RInt(n) == <<n, 1>>

RNeg(a) == <<-a[1], a[2]>>

RAdd(a, b) ==
    LET g == GCD(a[2], b[2])
        l == (a[2] \div g) * b[2]
    IN  Rat(a[1] * (l \div a[2]) + b[1] * (l \div b[2]), l)

RSub(a, b) == RAdd(a, RNeg(b))

RMul(a, b) ==
    LET g1 == GCD(Abs(a[1]), b[2])
        g2 == GCD(Abs(b[1]), a[2])
    IN  IF a[1] = 0 \/ b[1] = 0 THEN Zero
        ELSE <<(a[1] \div g1) * (b[1] \div g2), (a[2] \div g2) * (b[2] \div g1)>>

\* a / b for b # 0
RDiv(a, b) == RMul(a, IF b[1] < 0 THEN <<-b[2], -b[1]>> ELSE <<b[2], b[1]>>)

\* the amplitude n.0
F(n) == n * SCALE

\* a / d rounded to the nearest integer, halves away from zero (d > 0)
round_div(a, d) ==
    IF a >= 0 THEN (2 * a + d) \div (2 * d) ELSE -((d - 2 * a) \div (2 * d))

\* the f32 product of the amplitude v and the coefficient r
f32_mul(v, r) == round_div(v * r[1], r[2])

(***************************************************************************)
(* Arrays.  An Array3 is u[layer][x][y], an Array2 is t[x][y], as ndarray  *)
(* indexes them.                                                           *)
(***************************************************************************)
Layers == 0..2

\* Array::zeros((3, dimx, dimy))
zeros3(dimx, dimy) ==
    [l \in Layers |-> [x \in 0..(dimx - 1) |-> [y \in 0..(dimy - 1) |-> 0]]]

\* Array::from_elem((dimx, dimy), v)
from_elem(dimx, dimy, v) ==
    [x \in 0..(dimx - 1) |-> [y \in 0..(dimy - 1) |-> v]]

\* u.mapv_inplace(|u| u * f)
\* a scaling that reaches layer 0 only; the decay of the history layers
\* tells it from mapv_mul
mapv_mul_layer0(u, f) ==
    [l \in DOMAIN u |-> [x \in DOMAIN u[l] |-> [y \in DOMAIN u[l][x] |->
        IF l = 0 THEN f32_mul(u[l][x][y], f) ELSE u[l][x][y]]]]

mapv_mul(u, f) ==
    [l \in DOMAIN u |-> [x \in DOMAIN u[l] |-> [y \in DOMAIN u[l][x] |->
        f32_mul(u[l][x][y], f)]]]

\* sum of a sequence of amplitudes, left to right
RECURSIVE Sum(_)
Sum(s) == IF s = <<>> THEN 0 ELSE Sum(SubSeq(s, 1, Len(s) - 1)) + s[Len(s)]

(***************************************************************************)
(* finite_difference.rs : the two stencils.                                *)
(* A term <<c, xs, ys>> is one operand  c * u.slice(s![1, xs.., ys..])  of *)
(* the element-wise sum; the slice has the shape of the result, so element *)
(* (i, j) of the operand is c * u[1][xs + i][ys + j].                      *)
(***************************************************************************)
\* an order-1 table that counts the neighbour at x - 1 twice; the symmetry
\* of a single impulse tells it from Laplace1Terms
Laplace1Terms_skew ==
    << <<RInt(-4), 1, 1>>, <<RInt(2), 0, 1>>, <<One, 2, 1>>,
       <<One, 1, 0>>, <<One, 1, 2>> >>

Laplace1Terms ==
    << <<RInt(-4), 1, 1>>,
       <<One, 0, 1>>,
       <<One, 2, 1>>,
       <<One, 1, 0>>,
       <<One, 1, 2>> >>

Laplace4Terms ==
    << <<Rat(-1, 500), 4, 0>>,
       <<Rat(8, 315), 4, 1>>,
       <<Rat(-1, 5), 4, 2>>,
       <<Rat(8, 5), 4, 3>>,
       <<Rat(-1, 560), 0, 4>>,
       <<Rat(8, 315), 1, 4>>,
       <<Rat(-1, 5), 2, 4>>,
       <<Rat(8, 5), 3, 4>>,
       <<Rat(-410, 72), 4, 4>>,
       <<Rat(8, 5), 5, 4>>,
       <<Rat(-1, 5), 6, 4>>,
       <<Rat(8, 315), 7, 4>>,
       <<Rat(-1, 560), 8, 4>>,
       <<Rat(8, 5), 4, 5>>,
       <<Rat(-1, 5), 4, 6>>,
       <<Rat(8, 325), 4, 7>>,
       <<Rat(-1, 560), 4, 8>> >>

\* element (i, j) of the sum of the operands
laplace_operator(terms, u, i, j) ==
    Sum([k \in 1..Len(terms) |->
            f32_mul(u[1][terms[k][2] + i][terms[k][3] + j], terms[k][1])])

\* the cells of layer 1 the operands address for element (i, j)
laplace_reads(terms, i, j) ==
    {<<terms[k][2] + i, terms[k][3] + j>> : k \in 1..Len(terms)}

\* laplace_operator * alphas + prev, over a result of shape
\* (dimx - 2m) x (dimy - 2m); m is 1 or 4
\* a stencil that adds tau to the Laplacian instead of multiplying by it;
\* an all-zero grid tells it from stencil
stencil_plus(terms, m, dimx, dimy, tau, u) ==
    [i \in 0..(dimx - 2 * m - 1) |-> [j \in 0..(dimy - 2 * m - 1) |->
        laplace_operator(terms, u, i, j) + f32_mul(F(1), tau[m + i][m + j])
            + (2 * u[1][m + i][m + j] - u[2][m + i][m + j])]]

\* a stencil that subtracts layer 1 where the previous time layer belongs;
\* the order-1 update formula tells it from stencil
stencil_prev1(terms, m, dimx, dimy, tau, u) ==
    [i \in 0..(dimx - 2 * m - 1) |-> [j \in 0..(dimy - 2 * m - 1) |->
        f32_mul(laplace_operator(terms, u, i, j), tau[m + i][m + j])
            + (2 * u[1][m + i][m + j] - u[1][m + i][m + j])]]

\* a stencil that takes the previous time layer from layer 0; grids that
\* differ in layer 0 only tell it from stencil
stencil_prev0(terms, m, dimx, dimy, tau, u) ==
    [i \in 0..(dimx - 2 * m - 1) |-> [j \in 0..(dimy - 2 * m - 1) |->
        f32_mul(laplace_operator(terms, u, i, j), tau[m + i][m + j])
            + (2 * u[1][m + i][m + j] - u[0][m + i][m + j])]]

stencil(terms, m, dimx, dimy, tau, u) ==
    [i \in 0..(dimx - 2 * m - 1) |-> [j \in 0..(dimy - 2 * m - 1) |->
        f32_mul(laplace_operator(terms, u, i, j), tau[m + i][m + j])
            + (2 * u[1][m + i][m + j] - u[2][m + i][m + j])]]

update_with_laplace_operator_1(dimx, dimy, tau, u) ==
    stencil(Laplace1Terms, 1, dimx, dimy, tau, u)

update_with_laplace_operator_4(dimx, dimy, tau, u) ==
    stencil(Laplace4Terms, 4, dimx, dimy, tau, u)

(***************************************************************************)
(* finite_difference.rs : update_with_absorbing_boundary.                  *)
(* One edge:  boundary = ((k - 1) / (k + 1)) * (u[0][inward] - u[1][self]) *)
(* + u[1][inward], assigned to the strip of layer 0 that starts at         *)
(* (tx, ty) and is nx x ny cells; the inward slices start at (ax, ay).     *)
(***************************************************************************)
\* an edge that takes the inward difference from layer 2; the strips after
\* an update tell it from absorb_edge
absorb_edge_layer2(u, kappa, tx, ty, nx, ny, ax, ay) ==
    [u EXCEPT ![0] =
        [x \in DOMAIN u[0] |-> [y \in DOMAIN u[0][x] |->
            IF x \in tx..(tx + nx - 1) /\ y \in ty..(ty + ny - 1)
            THEN f32_mul(u[2][ax + (x - tx)][ay + (y - ty)] - u[1][x][y],
                         RDiv(RSub(kappa[x][y], One), RAdd(kappa[x][y], One)))
                 + u[1][ax + (x - tx)][ay + (y - ty)]
            ELSE u[0][x][y]]]]

absorb_edge(u, kappa, tx, ty, nx, ny, ax, ay) ==
    [u EXCEPT ![0] =
        [x \in DOMAIN u[0] |-> [y \in DOMAIN u[0][x] |->
            IF x \in tx..(tx + nx - 1) /\ y \in ty..(ty + ny - 1)
            THEN f32_mul(u[0][ax + (x - tx)][ay + (y - ty)] - u[1][x][y],
                         RDiv(RSub(kappa[x][y], One), RAdd(kappa[x][y], One)))
                 + u[1][ax + (x - tx)][ay + (y - ty)]
            ELSE u[0][x][y]]]]

\* strips whose inward slice at the far x edge starts a margin further in;
\* the smallest grids, where that slice starts below zero, tell it from
\* absorbing_edges
absorbing_edges_far(dimx, dimy, sz) ==
    << <<dimx - sz - 1, 1, sz, dimy - 2, dimx - 2 * sz - 2, 1>>,
       <<0, 1, sz, dimy - 2, 1, 1>>,
       <<1, dimy - sz - 1, dimx - 2, sz, 1, dimy - sz - 2>>,
       <<1, 0, dimx - 2, sz, 1, 1>> >>

\* the strips in the order the code assigns them: <<tx, ty, nx, ny, ax, ay>>
absorbing_edges(dimx, dimy, sz) ==
    << <<dimx - sz - 1, 1, sz, dimy - 2, dimx - sz - 2, 1>>,
       <<0, 1, sz, dimy - 2, 1, 1>>,
       <<1, dimy - sz - 1, dimx - 2, sz, 1, dimy - sz - 2>>,
       <<1, 0, dimx - 2, sz, 1, 1>> >>

RECURSIVE apply_edges(_, _, _)
apply_edges(u, kappa, edges) ==
    IF edges = <<>> THEN u
    ELSE LET e == Head(edges)
         IN  apply_edges(absorb_edge(u, kappa, e[1], e[2], e[3], e[4], e[5], e[6]),
                         kappa, Tail(edges))

\* the four edges with the two y edges assigned before the two x edges
update_with_absorbing_boundary_yx(dimx, dimy, sz, kappa, u) ==
    LET e == absorbing_edges(dimx, dimy, sz)
    IN  apply_edges(u, kappa, <<e[3], e[4], e[1], e[2]>>)

update_with_absorbing_boundary(dimx, dimy, sz, kappa, u) ==
    apply_edges(u, kappa, absorbing_edges(dimx, dimy, sz))

(***************************************************************************)
(* Failures of slicing.  A bound below zero stands for a usize subtraction *)
(* that underflows: the debug build panics at the subtraction, the release *)
(* build wraps and panics in the slice or in the broadcast of its operands *)
(* before anything is written.  s![lo..hi] on an axis of length len panics *)
(* when lo or hi exceeds len; hi < lo is the empty slice.                  *)
(***************************************************************************)
slice_ok(lo, hi, len) == 0 <= lo /\ 0 <= hi /\ lo <= len /\ hi <= len

slice_len(lo, hi) == IF hi < lo THEN 0 ELSE hi - lo

\* the slices <<xlo, xhi, ylo, yhi>> of one stencil: its operands, and
\* alphas and prev
stencil_slices(terms, m, dimx, dimy) ==
    {<<terms[k][2], dimx - 2 * m + terms[k][2],
       terms[k][3], dimy - 2 * m + terms[k][3]>> : k \in 1..Len(terms)}
        \cup {<<m, dimx - m, m, dimy - m>>}

\* a slice of the stencil is out of range, or two operands differ in shape
stencil_panics(terms, m, dimx, dimy) ==
    \/ \E s \in stencil_slices(terms, m, dimx, dimy) :
          ~slice_ok(s[1], s[2], dimx) \/ ~slice_ok(s[3], s[4], dimy)
    \/ \E s, t \in stencil_slices(terms, m, dimx, dimy) :
          \/ slice_len(s[1], s[2]) # slice_len(t[1], t[2])
          \/ slice_len(s[3], s[4]) # slice_len(t[3], t[4])

\* s![0, b..dimx - b, b..dimy - b] is out of range
assign_panics(b, dimx, dimy) ==
    ~slice_ok(b, dimx - b, dimx) \/ ~slice_ok(b, dimy - b, dimy)

\* one of dimx - sz - 2, dimy - sz - 2 underflows, or a strip or its inward
\* slice is out of range
absorbing_panics(dimx, dimy, sz) ==
    \/ dimx - sz - 2 < 0
    \/ dimy - sz - 2 < 0
    \/ \E k \in 1..Len(absorbing_edges(dimx, dimy, sz)) :
          LET e == absorbing_edges(dimx, dimy, sz)[k]
          IN  \/ ~slice_ok(e[1], e[1] + e[3], dimx)
              \/ ~slice_ok(e[2], e[2] + e[4], dimy)
              \/ ~slice_ok(e[5], e[5] + e[3], dimx)
              \/ ~slice_ok(e[6], e[6] + e[4], dimy)

(***************************************************************************)
(* Program constants.                                                      *)
(***************************************************************************)
\* simulation_plugin.rs: spatial step, time step, velocity
HS == One
TS == One
C == Rat(1, 2)
\* simulation_plugin.rs: amplitude of the periodic source
AMPLITUDE == F(60)
\* simulation_plugin.rs: period of SimulationTimer in milliseconds
FRAMES == 27
\* simulation_plugin.rs: the literal decay factor of the damping branch
DECAY == Rat(995, 1000)
\* wave_2d_simulation/simulation_plugin.rs: the amplitude a click writes
CLICK_AMPLITUDE == F(1)

\* Tau::init of a build with the constants DIMX = dimx, DIMY = dimy
Tau(dimx, dimy) ==
    from_elem(dimx, dimy, RMul(RDiv(RMul(C, TS), HS), RDiv(RMul(C, TS), HS)))

\* Kappa::init of a build with the constants DIMX = dimx, DIMY = dimy
Kappa(dimx, dimy) == from_elem(dimx, dimy, RDiv(RMul(TS, C), HS))

\* Tau::init and Kappa::init of the build with DIMX = DimX, DIMY = DimY
Tau_init == Tau(DimX, DimY)
Kappa_init == Kappa(DimX, DimY)

\* the cells of layer 0 the k-th edge assigns: those it changes in a grid
\* whose layer 1 is 1.0 everywhere and whose layers 0 and 2 are zero
edge_writes(dimx, dimy, sz, k) ==
    LET probe == [zeros3(dimx, dimy) EXCEPT ![1] = from_elem(dimx, dimy, F(1))]
        e == absorbing_edges(dimx, dimy, sz)[k]
        g == absorb_edge(probe, Kappa(dimx, dimy), e[1], e[2], e[3], e[4], e[5], e[6])
    IN  {c \in (0..(dimx - 1)) \X (0..(dimy - 1)) : g[0][c[1]][c[2]] # 0}

\* builds of simulation_plugin.rs with other constants <<DIMX, DIMY, BOUNDARY>>:
\* the smallest grids of either margin with an interior, a grid whose source
\* lies in the interior of the order-4 stencil, grids of exactly twice the
\* margin, a grid narrower than twice the margin, and a margin without a
\* stencil
Configurations ==
    {<<3, 4, 1>>, <<9, 10, 4>>, <<13, 13, 4>>,
     <<2, 3, 1>>, <<8, 8, 4>>, <<7, 9, 4>>,
     <<9, 9, 2>>}

\* Wave2dSimulationParameters::default()
Wave2dSimulationParameters_default ==
    [dimx |-> DimX, dimy |-> DimY, boundary_size |-> 4, apply_force |-> FALSE,
     syntetic_energy_loss_fraction |-> Rat(99, 100),
     wave_velocity |-> Rat(27, 100)]

\* frame lengths time.delta() takes, in milliseconds
Deltas == {16, 30}

\* systems registered on the update stage of each variant
TimerSystems == {"apply_force", "update_wave", "update_tiles", "debug_system"}
Wave2dSystems ==
    {"apply_force", "update_wave", "on_mouseclick", "mouse_event_handler",
     "on_ui_events", "show_ui"}

\* the widgets of the panel (ui.rs) the user operates in one session: the
\* source and the clock in one, the two reset buttons in the other; the
\* "wave velocity" slider in both
PanelControls == {"apply force", "wave velocity", "Start/Stop time"}
ResetControls == {"wave velocity", "Reset values", "Reset waves"}

\* Array3::default(), the grid before setup: no layer, no cell
Array3_default == <<>>

(***************************************************************************)
(* State.                                                                  *)
(***************************************************************************)
VARIABLES
    cfg,          \* variant, the constants BOUNDARY, ABSORBING_BOUNDARY, and
                  \* the widgets the user operates
    parameters,   \* Wave2dSimulationParameters / ParticleMessParameters
    u,            \* SimulationGrid / Wave2dSimulationGrid
    timer,        \* SimulationTimer / ParticleMessStopwatch: elapsed milliseconds
    delta,        \* time.delta() of the current frame
    paused,       \* Time::is_paused()
    force_phase,  \* ApplyingForceTimer, in quarter periods of the source
    pending,      \* systems that have not run yet in the current frame
    clicks,       \* Events<PlotClickedEvent> and the cursor of its reader
    ui_events,    \* Events<UiEvents> and the cursor of its reader
    ticks,        \* number of solver updates executed
    applied,      \* the batches of click events on_mouseclick has consumed, by id
    inputs,       \* number of user inputs so far
    panicked,     \* a system has panicked: the application is gone
    particles,    \* the Particle entities of the World and the spawn commands
                  \* queued in the current frame
    history_velocity
                  \* wave velocity of the solver update that computed the
                  \* samples the wave_2d grid holds; <<>> for a grid of zeros

vars == <<cfg, parameters, u, timer, delta, paused, force_phase, pending,
          clicks, ui_events, ticks, applied, inputs, panicked, particles,
          history_velocity>>

\* an empty Events<T>: the two buffers, and the number of events ever sent
Events_default == [old |-> <<>>, new |-> <<>>, count |-> 0, cursor |-> 0]

\* Events::send
Events_send(ev, e) ==
    [ev EXCEPT !.new = Append(@, [id |-> ev.count, e |-> e]), !.count = @ + 1]

\* Events::update: the older buffer is dropped, the newer becomes the older
Events_update(ev) == [ev EXCEPT !.old = ev.new, !.new = <<>>]

\* a reader that looks at the newer buffer only; the draining of every
\* event tells it from Events_unread
Events_unread_new(ev) ==
    SelectSeq(ev.new, LAMBDA r : r.id >= ev.cursor)

\* EventReader::iter: the events the reader has not seen, oldest first
Events_unread(ev) ==
    SelectSeq(ev.old \o ev.new, LAMBDA r : r.id >= ev.cursor)

\* the reader after iter() ran to its end
Events_read(ev) == [ev EXCEPT !.cursor = ev.count]

\* no Particle entity and no queued command: the World before the first spawn
Particles_default == [live |-> 0, spawned |-> 0]

\* ParticleMessParameters::default(), the fields the spawner and the counter
\* use; max_entities is scaled down to MaxEntities
ParticleMessParameters_default ==
    [number_of_particles |-> 0, max_entities |-> MaxEntities,
     spawn_particles |-> FALSE, spawn_frequency_hz |-> 20,
     spawn_particles_num |-> 1]

\* frame lengths of the particle simulation, in milliseconds: a frame of
\* the 60 Hz display, and a frame longer than the default spawn period
MessDeltas == {16, 60}

\* the systems of the particle simulation that touch the particle count,
\* and the panel
MessSystems == {"update", "update_global_parameters", "show_ui"}

Init ==
    /\ cfg \in {[variant |-> "timer", BOUNDARY |-> c[3], ABSORBING_BOUNDARY |-> a,
                  DIMX |-> c[1], DIMY |-> c[2]] :
                    c \in Configurations \cup {<<DimX, DimY, 1>>, <<DimX, DimY, 4>>},
                    a \in BOOLEAN}
               \cup [variant : {"wave2d"}, BOUNDARY : {4}, ABSORBING_BOUNDARY : {FALSE},
                     controls : {PanelControls, ResetControls}]
               \cup {[variant |-> "particle_mess"]}
    /\ parameters = IF cfg.variant = "particle_mess"
                    THEN ParticleMessParameters_default
                    ELSE Wave2dSimulationParameters_default
    /\ u = IF cfg.variant = "timer" THEN zeros3(cfg.DIMX, cfg.DIMY)
           ELSE Array3_default
    /\ timer = 0
    /\ delta \in IF cfg.variant = "timer" THEN Deltas
                 ELSE IF cfg.variant = "particle_mess" THEN MessDeltas ELSE {16}
    /\ paused = FALSE
    /\ force_phase = 0
    /\ pending = IF cfg.variant = "timer" THEN TimerSystems
                 ELSE IF cfg.variant = "particle_mess" THEN MessSystems
                 ELSE {"setup"}
    /\ clicks = Events_default
    /\ ui_events = Events_default
    /\ ticks = 0
    /\ applied = <<>>
    /\ inputs = 0
    /\ panicked = FALSE
    /\ particles = Particles_default
    /\ history_velocity = <<>>

(***************************************************************************)
(* The solver update shared by both variants.                              *)
(***************************************************************************)
\* Zip::from(a).and(b).for_each(std::mem::swap) on two layers
swap_layers(g, a, b) == [g EXCEPT ![a] = g[b], ![b] = g[a]]

\* a rotation without its first swap; the history kept in layer 2 tells it
\* from rotate
rotate_skip(g) == swap_layers(g, 1, 0)

\* the two swaps in the other order; the layer the oldest samples end up in
\* tells it from rotate
rotate_reversed(g) == swap_layers(swap_layers(g, 1, 0), 2, 1)

\* the two swaps at the start of update_wave: 2 <-> 1, then 1 <-> 0
rotate(g) == swap_layers(swap_layers(g, 2, 1), 1, 0)

\* an assignment one row towards x = 0; the cells the update writes tell it
\* from assign_interior
assign_interior_shift(g, b, dimx, dimy, new_u) ==
    [g EXCEPT ![0] =
        [x \in DOMAIN g[0] |-> [y \in DOMAIN g[0][x] |->
            IF x \in (b - 1)..(dimx - b - 2) /\ y \in b..(dimy - b - 1)
            THEN new_u[x - b + 1][y - b]
            ELSE g[0][x][y]]]]

\* an assignment that spills one cell into the band on every side, with the
\* value of the nearest interior cell, where there is an interior; the band
\* of a grid excited in the interior only tells it from assign_interior
assign_interior_wide(g, b, dimx, dimy, new_u) ==
    [g EXCEPT ![0] =
        [x \in DOMAIN g[0] |-> [y \in DOMAIN g[0][x] |->
            IF /\ dimx > 2 * b /\ dimy > 2 * b /\ b >= 1
               /\ x \in (b - 1)..(dimx - b) /\ y \in (b - 1)..(dimy - b)
            THEN LET i == IF x < b THEN 0
                          ELSE IF x > dimx - b - 1 THEN dimx - 2 * b - 1 ELSE x - b
                     j == IF y < b THEN 0
                          ELSE IF y > dimy - b - 1 THEN dimy - 2 * b - 1 ELSE y - b
                 IN  new_u[i][j]
            ELSE g[0][x][y]]]]

\* u.slice_mut(s![0, b..dimx - b, b..dimy - b]).assign(&new_u)
assign_interior(g, b, dimx, dimy, new_u) ==
    [g EXCEPT ![0] =
        [x \in DOMAIN g[0] |-> [y \in DOMAIN g[0][x] |->
            IF x \in b..(dimx - b - 1) /\ y \in b..(dimy - b - 1)
            THEN new_u[x - b][y - b]
            ELSE g[0][x][y]]]]

\* cells of the grid one update addresses: those the stencil reads (its
\* neighbours in layer 1, its centre in layers 1 and 2) and those the
\* assignment of its result overwrites in layer 0
stencil_access(terms, m, dimx, dimy) ==
    [reads |-> UNION {laplace_reads(terms, i, j) \cup {<<m + i, m + j>>} :
                        i \in 0..(dimx - 2 * m - 1), j \in 0..(dimy - 2 * m - 1)},
     writes |-> {c \in (0..(dimx - 1)) \X (0..(dimy - 1)) :
                    assign_interior(zeros3(dimx, dimy), m, dimx, dimy,
                                    from_elem(dimx - 2 * m, dimy - 2 * m, 1))
                        [0][c[1]][c[2]] = 1}]

\* Timer::tick(delta) of a repeating timer: the new elapsed time and just_finished()
Timer_tick(t, d) == [elapsed |-> (t + d) % FRAMES, just_finished |-> (t + d) >= FRAMES]

(***************************************************************************)
(* simulation_plugin.rs: the timer-driven solver.                          *)
(***************************************************************************)
\* an update that multiplies by the decay factor under either policy
update_wave_body_both(g, dimx, dimy, boundary, absorbing, tau, kappa) ==
    LET r == rotate(g)
        new_u == IF boundary = 1
                 THEN update_with_laplace_operator_1(dimx, dimy, tau, r)
                 ELSE update_with_laplace_operator_4(dimx, dimy, tau, r)
        w == assign_interior(r, boundary, dimx, dimy, new_u)
    IN  mapv_mul(IF absorbing
                 THEN update_with_absorbing_boundary(dimx, dimy, boundary, kappa, w)
                 ELSE w, DECAY)

\* the body of update_wave once the timer has just finished, in a build
\* where no statement of it panics
update_wave_body(g, dimx, dimy, boundary, absorbing, tau, kappa) ==
    LET r == rotate(g)
        new_u == IF boundary = 1
                 THEN update_with_laplace_operator_1(dimx, dimy, tau, r)
                 ELSE update_with_laplace_operator_4(dimx, dimy, tau, r)
        w == assign_interior(r, boundary, dimx, dimy, new_u)
    IN  IF absorbing
        THEN update_with_absorbing_boundary(dimx, dimy, boundary, kappa, w)
        ELSE mapv_mul(w, DECAY)

\* the stencil update_wave selects: none for a margin other than 1 and 4
selected_terms(boundary) ==
    IF boundary = 1 THEN Laplace1Terms
    ELSE IF boundary = 4 THEN Laplace4Terms
    ELSE <<>>

\* the body of update_wave panics: at todo!, in the stencil, in the
\* assignment of its result, or in the absorbing boundary
update_wave_panics(dimx, dimy, boundary, absorbing) ==
    \/ boundary \notin {1, 4}
    \/ stencil_panics(selected_terms(boundary), boundary, dimx, dimy)
    \/ assign_panics(boundary, dimx, dimy)
    \/ absorbing /\ absorbing_panics(dimx, dimy, boundary)

\* the grid a panicking update_wave leaves: the two swaps are done; the
\* result of the stencil is assigned when the panic is in the absorbing
\* boundary, whose bounds are computed before its first strip
update_wave_panicked(g, dimx, dimy, boundary, tau) ==
    IF \/ boundary \notin {1, 4}
       \/ stencil_panics(selected_terms(boundary), boundary, dimx, dimy)
       \/ assign_panics(boundary, dimx, dimy)
    THEN rotate(g)
    ELSE assign_interior(rotate(g), boundary, dimx, dimy,
                         stencil(selected_terms(boundary), boundary,
                                 dimx, dimy, tau, rotate(g)))

apply_force ==
    /\ cfg.variant = "timer"
    /\ ~panicked
    /\ "apply_force" \in pending
    /\ pending' = pending \ {"apply_force"}
    /\ timer' = Timer_tick(timer, delta).elapsed
    /\ LET init_x == (4 * cfg.DIMX) \div 6
           init_y == (4 * cfg.DIMY) \div 6
       IN  IF ~Timer_tick(timer, delta).just_finished
           THEN UNCHANGED <<u, panicked>>
           ELSE IF init_x \in 0..(cfg.DIMX - 1) /\ init_y \in 0..(cfg.DIMY - 1)
           THEN /\ u' = [u EXCEPT ![0][init_x][init_y] = AMPLITUDE]
                /\ UNCHANGED panicked
           ELSE /\ panicked' = TRUE
                /\ UNCHANGED u
    /\ UNCHANGED <<cfg, particles, history_velocity, parameters, delta,
                   paused, force_phase, clicks, ui_events, ticks, applied,
                   inputs>>

update_wave ==
    /\ cfg.variant = "timer"
    /\ ~panicked
    /\ "update_wave" \in pending
    /\ pending' = pending \ {"update_wave"}
    /\ timer' = Timer_tick(timer, delta).elapsed
    /\ IF ~Timer_tick(timer, delta).just_finished
       THEN UNCHANGED <<u, ticks, panicked>>
       ELSE /\ ticks < MaxTicks
            /\ \E tau \in {Tau(cfg.DIMX, cfg.DIMY)}, kappa \in {Kappa(cfg.DIMX, cfg.DIMY)} :
                 IF update_wave_panics(cfg.DIMX, cfg.DIMY, cfg.BOUNDARY,
                                       cfg.ABSORBING_BOUNDARY)
                 THEN /\ u' = update_wave_panicked(u, cfg.DIMX, cfg.DIMY,
                                                   cfg.BOUNDARY, tau)
                      /\ panicked' = TRUE
                      /\ UNCHANGED ticks
                 ELSE /\ u' = update_wave_body(u, cfg.DIMX, cfg.DIMY, cfg.BOUNDARY,
                                               cfg.ABSORBING_BOUNDARY, tau, kappa)
                      /\ ticks' = ticks + 1
                      /\ UNCHANGED panicked
    /\ UNCHANGED <<cfg, particles, history_velocity, parameters, delta,
                   paused, force_phase, clicks, ui_events, applied, inputs>>

update_tiles ==
    /\ cfg.variant = "timer"
    /\ ~panicked
    /\ "update_tiles" \in pending
    /\ pending' = pending \ {"update_tiles"}
    /\ timer' = Timer_tick(timer, delta).elapsed
    /\ UNCHANGED <<cfg, particles, history_velocity, panicked, parameters, u,
                   delta, paused, force_phase, clicks, ui_events, ticks,
                   applied, inputs>>

debug_system ==
    /\ cfg.variant = "timer"
    /\ ~panicked
    /\ "debug_system" \in pending
    /\ pending' = pending \ {"debug_system"}
    /\ timer' = Timer_tick(timer, delta).elapsed
    /\ UNCHANGED <<cfg, particles, history_velocity, panicked, parameters, u,
                   delta, paused, force_phase, clicks, ui_events, ticks,
                   applied, inputs>>

(***************************************************************************)
(* wave_2d_simulation: the parameter-driven solver.                        *)
(***************************************************************************)
\* positions (x, y) a PlotClickedEvent carries, in halves of a cell: the
\* cell (4, 4), a negative x, an x far beyond the grid, and a y that rounds
\* up to dimy
ClickPositions ==
    {<<8, 8>>, <<-1, 8>>, <<2000, 1>>, <<8, 2 * DimY - 1>>}

\* f32::round of h/2: to the nearest integer, halves away from zero
f32_round(h) == IF h >= 0 THEN (h + 1) \div 2 ELSE -((1 - h) \div 2)

\* a cast that drops the sign; a click left of the plot tells it from
\* as_usize
as_usize_abs(n) == Abs(n)

\* the cast `as usize`: negative values saturate to 0
as_usize(n) == IF n < 0 THEN 0 ELSE n

\* (elapsed * frequency * TAU).sin() at whole quarter periods
sin_quarter(q) == <<F(0), F(1), F(0), F(-1)>>[(q % 4) + 1]

\* get_tau
get_tau(p) == from_elem(p.dimx, p.dimy, p.wave_velocity)

\* wave_2d_simulation/finite_difference.rs is not part of the sources; the
\* operator is the order-4 stencil with the coefficients of the design
Laplace4DesignTerms ==
    << <<Rat(-1, 560), 4, 0>>, <<Rat(8, 315), 4, 1>>,
       <<Rat(-1, 5), 4, 2>>, <<Rat(8, 5), 4, 3>>,
       <<Rat(-1, 560), 0, 4>>, <<Rat(8, 315), 1, 4>>,
       <<Rat(-1, 5), 2, 4>>, <<Rat(8, 5), 3, 4>>,
       <<Rat(-410, 72), 4, 4>>,
       <<Rat(8, 5), 5, 4>>, <<Rat(-1, 5), 6, 4>>,
       <<Rat(8, 315), 7, 4>>, <<Rat(-1, 560), 8, 4>>,
       <<Rat(8, 5), 4, 5>>, <<Rat(-1, 5), 4, 6>>,
       <<Rat(8, 315), 4, 7>>, <<Rat(-1, 560), 4, 8>> >>

update_with_laplace_operator(dimx, dimy, tau, g) ==
    stencil(Laplace4DesignTerms, 4, dimx, dimy, tau, g)

\* a click that lands in layer 1; the cells a click changes tell it from
\* on_mouseclick_event
on_mouseclick_event_layer1(g, p, e) ==
    LET event_x == as_usize(f32_round(e.x))
        event_y == as_usize(f32_round(e.y))
    IN  IF 0 < event_x /\ event_x < p.dimx /\ 0 < event_y /\ event_y < p.dimy
        THEN [g EXCEPT ![1][event_x][event_y] = CLICK_AMPLITUDE]
        ELSE g

\* the body of the loop of on_mouseclick for one event
on_mouseclick_event(g, p, e) ==
    LET event_x == as_usize(f32_round(e.x))
        event_y == as_usize(f32_round(e.y))
    IN  IF 0 < event_x /\ event_x < p.dimx /\ 0 < event_y /\ event_y < p.dimy
        THEN [g EXCEPT ![0][event_x][event_y] = CLICK_AMPLITUDE]
        ELSE g

\* the loop of on_mouseclick over the unread events, oldest first
RECURSIVE on_mouseclick_loop(_, _, _)
on_mouseclick_loop(g, p, evs) ==
    IF evs = <<>> THEN g
    ELSE on_mouseclick_loop(on_mouseclick_event(g, p, Head(evs).e), p, Tail(evs))

\* the body of wave2d update_wave when time is not paused
wave2d_update_wave_body(g, p) ==
    LET r == rotate(g)
        new_u == update_with_laplace_operator(p.dimx, p.dimy, get_tau(p), r)
        w == assign_interior(r, p.boundary_size, p.dimx, p.dimy, new_u)
    IN  mapv_mul(w, p.syntetic_energy_loss_fraction)

\* setup, on entering AppState::Wave2dSimulation: it runs before the systems
\* of the update stage
setup ==
    /\ cfg.variant = "wave2d"
    /\ pending = {"setup"}
    /\ pending' = Wave2dSystems
    /\ u' = zeros3(parameters.dimx, parameters.dimy)
    /\ history_velocity' = <<>>
    /\ UNCHANGED <<cfg, particles, panicked, parameters, timer, delta, paused,
                   force_phase, clicks, ui_events, ticks, applied, inputs>>

wave2d_apply_force ==
    /\ cfg.variant = "wave2d"
    /\ "apply_force" \in pending
    /\ pending' = pending \ {"apply_force"}
    /\ IF ~parameters.apply_force
       THEN UNCHANGED <<u, force_phase>>
       ELSE /\ u' = [u EXCEPT ![0][(4 * parameters.dimx) \div 6]
                                  [(4 * parameters.dimy) \div 6] =
                                    sin_quarter(force_phase)]
            /\ force_phase' = (force_phase + (IF delta > 0 THEN 1 ELSE 0)) % 4
    /\ UNCHANGED <<cfg, particles, history_velocity, panicked, parameters,
                   timer, delta, paused, clicks, ui_events, ticks, applied,
                   inputs>>

on_mouseclick ==
    /\ cfg.variant = "wave2d"
    /\ "on_mouseclick" \in pending
    /\ pending' = pending \ {"on_mouseclick"}
    /\ u' = on_mouseclick_loop(u, parameters, Events_unread(clicks))
    /\ clicks' = Events_read(clicks)
    /\ applied' = IF Events_unread(clicks) = <<>> THEN applied
                  ELSE Append(applied, [k \in 1..Len(Events_unread(clicks)) |->
                                           Events_unread(clicks)[k].id])
    /\ UNCHANGED <<cfg, particles, history_velocity, panicked, parameters,
                   timer, delta, paused, force_phase, ui_events, ticks,
                   inputs>>

wave2d_update_wave ==
    /\ cfg.variant = "wave2d"
    /\ "update_wave" \in pending
    /\ pending' = pending \ {"update_wave"}
    /\ IF paused
       THEN UNCHANGED <<u, ticks, history_velocity>>
       ELSE /\ ticks < MaxUpdates
            /\ u' = wave2d_update_wave_body(u, parameters)
            /\ history_velocity' = IF u' = zeros3(parameters.dimx, parameters.dimy)
                                   THEN <<>> ELSE parameters.wave_velocity
            /\ ticks' = ticks + 1
    /\ UNCHANGED <<cfg, particles, panicked, parameters, timer, delta, paused,
                   force_phase, clicks, ui_events, applied, inputs>>

\* the left button was just pressed over the plot at (x, y), or it was not
mouse_event_handler ==
    /\ cfg.variant = "wave2d"
    /\ "mouse_event_handler" \in pending
    /\ pending' = pending \ {"mouse_event_handler"}
    /\ \/ UNCHANGED <<clicks, inputs>>
       \/ /\ inputs < MaxInputs
          /\ inputs' = inputs + 1
          /\ \E c \in ClickPositions :
                clicks' = Events_send(clicks, [x |-> c[1], y |-> c[2]])
    /\ UNCHANGED <<cfg, particles, history_velocity, panicked, parameters, u,
                   timer, delta, paused, force_phase, ui_events, ticks,
                   applied>>

\* a Reset that clears the newest layer only; the history left in layers 1
\* and 2 tells it from on_ui_event
on_ui_event_layer0(st, p, e) ==
    IF e = "StartStopTime"
    THEN [st EXCEPT !.paused = ~st.paused]
    ELSE [st EXCEPT !.u[0] = zeros3(p.dimx, p.dimy)[0]]

\* the loop of on_ui_events for one event
on_ui_event(st, p, e) ==
    IF e = "StartStopTime"
    THEN [st EXCEPT !.paused = ~st.paused]
    ELSE [st EXCEPT !.u = zeros3(p.dimx, p.dimy)]

RECURSIVE on_ui_events_loop(_, _, _)
on_ui_events_loop(st, p, evs) ==
    IF evs = <<>> THEN st
    ELSE on_ui_events_loop(on_ui_event(st, p, Head(evs).e), p, Tail(evs))

on_ui_events ==
    /\ cfg.variant = "wave2d"
    /\ "on_ui_events" \in pending
    /\ pending' = pending \ {"on_ui_events"}
    /\ LET st == on_ui_events_loop([paused |-> paused, u |-> u], parameters,
                                   Events_unread(ui_events))
       IN  /\ paused' = st.paused
           /\ u' = st.u
           /\ history_velocity' = IF st.u = zeros3(parameters.dimx, parameters.dimy)
                                  THEN <<>> ELSE history_velocity
    /\ ui_events' = Events_read(ui_events)
    /\ UNCHANGED <<cfg, particles, panicked, parameters, timer, delta,
                   force_phase, clicks, ticks, applied, inputs>>

\* values the "wave velocity" slider is moved between
Velocities == {Rat(27, 100), Rat(1, 10)}

\* one pass of the panel: the user leaves it alone, or operates one widget:
\* the checkbox of the periodic source, the "wave velocity" slider, or one of
\* the buttons "Start/Stop time", "Reset values", "Reset waves"
show_ui ==
    /\ cfg.variant = "wave2d"
    /\ "show_ui" \in pending
    /\ pending' = pending \ {"show_ui"}
    /\ \/ UNCHANGED <<parameters, ui_events, inputs>>
       \/ /\ inputs < MaxInputs
          /\ inputs' = inputs + 1
          /\ \/ /\ "apply force" \in cfg.controls
                /\ parameters' = [parameters EXCEPT !.apply_force = ~@]
                /\ UNCHANGED ui_events
             \/ /\ "wave velocity" \in cfg.controls
                /\ \E v \in Velocities \ {parameters.wave_velocity} :
                      parameters' = [parameters EXCEPT !.wave_velocity = v]
                /\ UNCHANGED ui_events
             \/ /\ "Start/Stop time" \in cfg.controls
                /\ ui_events' = Events_send(ui_events, "StartStopTime")
                /\ UNCHANGED parameters
             \/ /\ "Reset values" \in cfg.controls
                /\ parameters' = Wave2dSimulationParameters_default
                /\ UNCHANGED ui_events
             \/ /\ "Reset waves" \in cfg.controls
                /\ ui_events' = Events_send(ui_events, "Reset")
                /\ UNCHANGED parameters
    /\ UNCHANGED <<cfg, particles, history_velocity, panicked, u, timer,
                   delta, paused, force_phase, clicks, ticks, applied>>

(***************************************************************************)
(* particle_mess.rs: the spawner and the counter of particles.  Commands   *)
(* are deferred: an entity spawned by a system exists from the end of the  *)
(* stage on, and the queries of the frame do not see it.                   *)
(***************************************************************************)
\* values the "spawn this many particles at once" slider is moved between
SpawnNums == 1..(MaxEntities - 1)

\* values the "spawn frequency" slider is moved between, in Hz
SpawnFrequencies == {20, 100}

\* the longest spawn period, in milliseconds; an elapsed time at or above
\* it passes the test of every period
MaxPeriod == 50

\* Stopwatch::tick followed by elapsed().as_millis()
Stopwatch_tick(t, d) == IF t + d >= MaxPeriod THEN MaxPeriod ELSE t + d

\* (1000.0 / spawn_frequency_hz) as u128
period(hz) == 1000 \div hz

\* spawn_particles_num.min(max_entities - number_of_particles), for a
\* counter that does not exceed max_entities
spawn_count(p) ==
    IF p.spawn_particles_num < p.max_entities - p.number_of_particles
    THEN p.spawn_particles_num
    ELSE p.max_entities - p.number_of_particles

update ==
    /\ cfg.variant = "particle_mess"
    /\ ~panicked
    /\ "update" \in pending
    /\ pending' = pending \ {"update"}
    /\ IF /\ Stopwatch_tick(timer, delta) >= period(parameters.spawn_frequency_hz)
          /\ particles.live < parameters.max_entities
          /\ parameters.spawn_particles
       THEN /\ timer' = 0
            /\ IF parameters.number_of_particles > parameters.max_entities
               THEN \* the usize subtraction underflows: the debug build
                    \* panics, the release build wraps to a number above
                    \* spawn_particles_num
                    \/ /\ panicked' = TRUE
                       /\ UNCHANGED particles
                    \/ /\ particles' = [particles EXCEPT
                             !.spawned = @ + parameters.spawn_particles_num]
                       /\ UNCHANGED panicked
               ELSE /\ particles' = [particles EXCEPT
                             !.spawned = @ + spawn_count(parameters)]
                    /\ UNCHANGED panicked
       ELSE /\ timer' = Stopwatch_tick(timer, delta)
            /\ UNCHANGED <<particles, panicked>>
    /\ UNCHANGED <<cfg, history_velocity, parameters, u, delta, paused,
                   force_phase, clicks, ui_events, ticks, applied, inputs>>

update_global_parameters ==
    /\ cfg.variant = "particle_mess"
    /\ ~panicked
    /\ "update_global_parameters" \in pending
    /\ pending' = pending \ {"update_global_parameters"}
    /\ parameters' = [parameters EXCEPT !.number_of_particles = particles.live]
    /\ UNCHANGED <<cfg, particles, history_velocity, panicked, u, timer,
                   delta, paused, force_phase, clicks, ui_events, ticks,
                   applied, inputs>>

\* the panel of the particle simulation: the user leaves it alone, ticks
\* "spawn particles", or moves one of the two spawn sliders; "max
\* particles" is left where it is
particle_mess_show_ui ==
    /\ cfg.variant = "particle_mess"
    /\ ~panicked
    /\ "show_ui" \in pending
    /\ pending' = pending \ {"show_ui"}
    /\ \/ UNCHANGED <<parameters, inputs>>
       \/ /\ inputs < MaxInputs
          /\ inputs' = inputs + 1
          /\ \/ parameters' = [parameters EXCEPT !.spawn_particles = ~@]
             \/ \E n \in SpawnNums \ {parameters.spawn_particles_num} :
                   parameters' = [parameters EXCEPT !.spawn_particles_num = n]
             \/ \E f \in SpawnFrequencies \ {parameters.spawn_frequency_hz} :
                   parameters' = [parameters EXCEPT !.spawn_frequency_hz = f]
    /\ UNCHANGED <<cfg, particles, history_velocity, panicked, u, timer,
                   delta, paused, force_phase, clicks, ui_events, ticks,
                   applied>>

(***************************************************************************)
(* The engine between two frames: Events::update for both event types, the *)
(* update of Time (a paused Time reports a zero delta), and every system   *)
(* of the update stage becomes runnable again, in no fixed order.          *)
(***************************************************************************)
next_frame ==
    /\ ~panicked
    /\ pending = {}
    /\ pending' = IF cfg.variant = "timer" THEN TimerSystems
                  ELSE IF cfg.variant = "particle_mess" THEN MessSystems
                  ELSE Wave2dSystems
    /\ delta' = IF cfg.variant \in {"timer", "particle_mess"} THEN delta
                 ELSE IF paused THEN 0 ELSE 16
    /\ clicks' = Events_update(clicks)
    /\ ui_events' = Events_update(ui_events)
    /\ particles' = [live |-> particles.live + particles.spawned, spawned |-> 0]
    /\ UNCHANGED <<cfg, history_velocity, panicked, parameters, u, timer, paused,
                   force_phase, ticks, applied, inputs>>

Next ==
    \/ apply_force
    \/ update_wave
    \/ update_tiles
    \/ debug_system
    \/ setup
    \/ wave2d_apply_force
    \/ on_mouseclick
    \/ wave2d_update_wave
    \/ mouse_event_handler
    \/ on_ui_events
    \/ show_ui
    \/ update
    \/ update_global_parameters
    \/ particle_mess_show_ui
    \/ next_frame

Spec == Init /\ [][Next]_vars

\* the application built with simulation_plugin.rs alone
InitTimer ==
    /\ Init
    /\ cfg.variant = "timer"
    /\ <<cfg.DIMX, cfg.DIMY>> = <<DimX, DimY>>
    /\ cfg.BOUNDARY \in {1, 4}
NextTimer ==
    \/ apply_force
    \/ update_wave
    \/ update_tiles
    \/ debug_system
    \/ next_frame
SpecTimer == InitTimer /\ [][NextTimer]_vars

\* builds of simulation_plugin.rs with the constants of Configurations, at
\* frames longer than the period of the timer
InitConfig ==
    /\ Init
    /\ cfg.variant = "timer"
    /\ <<cfg.DIMX, cfg.DIMY, cfg.BOUNDARY>> \in Configurations
    /\ delta = 30
SpecConfig == InitConfig /\ [][NextTimer]_vars

\* the application in the state AppState::Wave2dSimulation, the user at
\* the source, the slider and the clock
InitWave2d == Init /\ cfg.variant = "wave2d" /\ cfg.controls = PanelControls
NextWave2d ==
    \/ setup
    \/ wave2d_apply_force
    \/ on_mouseclick
    \/ wave2d_update_wave
    \/ mouse_event_handler
    \/ on_ui_events
    \/ show_ui
    \/ next_frame
SpecWave2d == InitWave2d /\ [][NextWave2d]_vars

\* the same application, the user at the slider and the two reset buttons
InitReset == Init /\ cfg.variant = "wave2d" /\ cfg.controls = ResetControls
SpecReset == InitReset /\ [][NextWave2d]_vars

\* the particle simulation: the spawner, the counter and the panel
InitParticles == Init /\ cfg.variant = "particle_mess"
NextParticles ==
    \/ update
    \/ update_global_parameters
    \/ particle_mess_show_ui
    \/ next_frame
SpecParticles == InitParticles /\ [][NextParticles]_vars

(***************************************************************************)
(* Properties of the solver update (simulation_plugin.rs).                 *)
(***************************************************************************)
Cells == (0..(DimX - 1)) \X (0..(DimY - 1))

\* the cells at least m away from every edge of the grid
Interior(m) ==
    {c \in Cells : m <= c[1] /\ c[1] < DimX - m /\ m <= c[2] /\ c[2] < DimY - m}

AllZero(g) == \A l \in Layers : \A c \in Cells : g[l][c[1]][c[2]] = 0

Max(S) == CHOOSE m \in S : \A n \in S : n <= m

\* max(|grid|) over the layers ls
MaxAbs(g, ls) == Max({Abs(g[l][c[1]][c[2]]) : l \in ls, c \in Cells})

\* the factor of the damping fallback
decay_factor ==
    IF cfg.variant = "timer" THEN DECAY
    ELSE parameters.syntetic_energy_loss_fraction

\* this step is one solver update
SolverTick == ticks' = ticks + 1

\* C1, as stated: at every solver update after the first, under both boundary
\* policies, layer 2 after the update equals cell for cell layer 1 as the
\* update before left it: the history is neither skipped nor rescaled.
C1_HistoryUnscaled ==
    [][(SolverTick /\ ticks >= 1) => u'[2] = u[1]]_vars

\* C1, amended: a solver update moves layer 1 into layer 2; the absorbing
\* policy keeps it cell for cell, the damping policy multiplies every cell of
\* it by the decay factor.  Between two updates layers 1 and 2 do not change,
\* so layer 1 before an update is layer 1 as the update before left it.
C1_LayerRotation ==
    [][/\ SolverTick =>
            \A c \in Cells :
                u'[2][c[1]][c[2]] =
                    IF cfg.ABSORBING_BOUNDARY THEN u[1][c[1]][c[2]]
                    ELSE f32_mul(u[1][c[1]][c[2]], decay_factor)
       /\ ~SolverTick => (u'[1] = u[1] /\ u'[2] = u[2])]_vars

\* C1: two updates under the damping policy have left history in layer 2
C1_Witness ==
    /\ ticks >= 2
    /\ ~cfg.ABSORBING_BOUNDARY
    /\ \E c \in Cells : u[2][c[1]][c[2]] # 0

\* C2: a solver update of an all-zero grid (no force has been injected)
\* leaves every cell of every layer exactly zero, for the stencils of margin
\* 1 and 4 and for both boundary policies; by induction the grid stays zero
\* over any number of updates.
C2_ZeroInZeroOut ==
    [][(SolverTick /\ AllZero(u)) => AllZero(u')]_vars

\* C2: updates of the order-4 stencil with the absorbing boundary have run
\* on a grid that is still all zero
C2_Witness ==
    /\ ticks >= 2
    /\ cfg.BOUNDARY = 4
    /\ cfg.ABSORBING_BOUNDARY
    /\ AllZero(u)

\* C3, as stated: under the damping policy max(|grid|) after a solver update
\* is at most the decay factor times max(|grid|) before it.
C3_MaxNeverIncreases ==
    [][(SolverTick /\ ~cfg.ABSORBING_BOUNDARY) =>
            MaxAbs(u', Layers) <= f32_mul(MaxAbs(u, Layers), decay_factor)]_vars

\* C3, amended: under the damping policy a solver update leaves in layers 1
\* and 2 the former layers 0 and 1 multiplied by the decay factor, so the
\* maximum over the history layers is at most the decay factor times the
\* former maximum; the new layer 0 is not bounded that way.
C3_HistoryDecays ==
    [][(SolverTick /\ ~cfg.ABSORBING_BOUNDARY) =>
            /\ \A c \in Cells :
                /\ u'[1][c[1]][c[2]] = f32_mul(u[0][c[1]][c[2]], decay_factor)
                /\ u'[2][c[1]][c[2]] = f32_mul(u[1][c[1]][c[2]], decay_factor)
            /\ MaxAbs(u', {1, 2}) <= f32_mul(MaxAbs(u, {0, 1}), decay_factor)]_vars

\* C3: under the damping policy an update has raised a cell of layer 0 above
\* the amplitude of the source, the largest value ever injected
C3_Witness ==
    /\ ticks >= 1
    /\ ~cfg.ABSORBING_BOUNDARY
    /\ MaxAbs(u, {0}) > AMPLITUDE

\* the table of the stencil the configuration selects
stencil_terms ==
    IF cfg.variant = "wave2d" THEN Laplace4DesignTerms
    ELSE IF cfg.BOUNDARY = 1 THEN Laplace1Terms ELSE Laplace4Terms

\* the cells the solver update of the configuration reads and writes
update_access == stencil_access(stencil_terms, cfg.BOUNDARY, DimX, DimY)

\* C4, as stated: in a solver update the stencil neither reads nor writes a cell whose x is
\* below the margin or at least dimx - margin, or whose y is below the margin
\* or at least dimy - margin.
C4_NoBandAccess ==
    [][SolverTick =>
        (update_access.reads \cup update_access.writes)
            \subseteq Interior(cfg.BOUNDARY)]_vars

\* C4, amended: in a solver update the stencil writes exactly the interior cells and no cell of
\* the band; it reads cells of the band, the neighbours of interior cells up
\* to margin cells away along one axis, but no cell outside the grid and no
\* cell of the corner blocks.
C4_BandNeverWritten ==
    [][SolverTick =>
        /\ update_access.writes = Interior(cfg.BOUNDARY)
        /\ update_access.reads \subseteq
                {c \in Cells : \/ (cfg.BOUNDARY <= c[1] /\ c[1] < DimX - cfg.BOUNDARY)
                               \/ (cfg.BOUNDARY <= c[2] /\ c[2] < DimY - cfg.BOUNDARY)}]_vars

\* C4: the order-4 stencil has run and has read cells of the band
C4_Witness ==
    /\ ticks >= 1
    /\ cfg.BOUNDARY = 4
    /\ \E c \in update_access.reads : c \notin Interior(cfg.BOUNDARY)

\* the order-1 update of the cell (x, y) from the layers L1 and L2
order1_formula(tau, L1, L2, x, y) ==
    f32_mul(L1[x - 1][y] + L1[x + 1][y] + L1[x][y - 1] + L1[x][y + 1]
                - 4 * L1[x][y], tau[x][y])
        + 2 * L1[x][y] - L2[x][y]

\* layer L holds a nonzero amplitude at the cell s and zero everywhere else
SingleImpulse(L, s) ==
    /\ L[s[1]][s[2]] # 0
    /\ \A c \in Cells \ {s} : L[c[1]][c[2]] = 0

\* the four orthogonal neighbours of the cell s
Neighbours(s) ==
    {<<s[1] - 1, s[2]>>, <<s[1] + 1, s[2]>>, <<s[1], s[2] - 1>>, <<s[1], s[2] + 1>>}

SameOffset(p, q, s) ==
    \/ /\ Abs(p[1] - s[1]) = Abs(q[1] - s[1])
       /\ Abs(p[2] - s[2]) = Abs(q[2] - s[2])
    \/ /\ Abs(p[1] - s[1]) = Abs(q[2] - s[2])
       /\ Abs(p[2] - s[2]) = Abs(q[1] - s[1])

OnMouseclickStep ==
    "on_mouseclick" \in pending /\ "on_mouseclick" \notin pending'

\* the events queued for on_mouseclick, oldest first
queued == Events_unread(clicks)

\* the coordinates of the event e rounded to the nearest cell
rounded(e) == <<f32_round(e.x), f32_round(e.y)>>

\* 0 < ex < dimx and 0 < ey < dimy
in_range(c) ==
    0 < c[1] /\ c[1] < parameters.dimx /\ 0 < c[2] /\ c[2] < parameters.dimy

\* C7: one run of on_mouseclick sets layer 0 to the forcing amplitude at the
\* rounded cell (ex, ey) of every queued event with 0 < ex < dimx and
\* 0 < ey < dimy, and changes no other cell of any layer.
C7_PointEventInjection ==
    [][OnMouseclickStep =>
        \A l \in Layers : \A c \in Cells :
            u'[l][c[1]][c[2]] =
                IF /\ l = 0
                   /\ \E k \in 1..Len(queued) :
                        rounded(queued[k].e) = c /\ in_range(c)
                THEN CLICK_AMPLITUDE
                ELSE u[l][c[1]][c[2]]]_vars

\* C7: a click on the cell (4, 4) is the only thing that has happened to the
\* grid
C7_Witness ==
    /\ applied # <<>>
    /\ ticks = 0
    /\ u[0][4][4] = CLICK_AMPLITUDE
    /\ \A l \in Layers : \A c \in Cells \ {<<4, 4>>} : u[l][c[1]][c[2]] = 0
    /\ \A c \in Cells : u[1][c[1]][c[2]] = 0 /\ u[2][c[1]][c[2]] = 0

\* C8: an event whose rounded x is <= 0 or >= dimx, or whose rounded y is
\* <= 0 or >= dimy, is dropped: a run of on_mouseclick over such events only
\* leaves every cell of every layer unchanged, the cell an event does write
\* lies inside the grid, an event in range that follows a dropped one in the
\* batch is still applied, and the whole batch is consumed.
C8_OutOfRangeDropped ==
    [][OnMouseclickStep =>
        /\ (\A k \in 1..Len(queued) : ~in_range(rounded(queued[k].e))) => u' = u
        /\ \A k \in 1..Len(queued) :
            LET event_x == as_usize(f32_round(queued[k].e.x))
                event_y == as_usize(f32_round(queued[k].e.y))
            IN  (0 < event_x /\ event_x < parameters.dimx
                    /\ 0 < event_y /\ event_y < parameters.dimy) =>
                    /\ <<event_x, event_y>> \in Cells
                    /\ in_range(rounded(queued[k].e))
        /\ \A i, j \in 1..Len(queued) :
            (/\ i < j
             /\ ~in_range(rounded(queued[i].e))
             /\ in_range(rounded(queued[j].e))) =>
                u'[0][rounded(queued[j].e)[1]][rounded(queued[j].e)[2]]
                    = CLICK_AMPLITUDE
        /\ clicks'.cursor = clicks.count]_vars

\* C8: one run of on_mouseclick took a batch of two events, dropped the
\* first, which is out of range, and applied the second
C8_Witness ==
    /\ \E k \in 1..Len(applied) : Len(applied[k]) = 2
    /\ Len(clicks.old) = 1
    /\ Len(clicks.new) = 1
    /\ ~in_range(rounded(clicks.old[1].e))
    /\ in_range(rounded(clicks.new[1].e))
    /\ u[0][4][4] = CLICK_AMPLITUDE

RECURSIVE Flatten(_)
Flatten(ss) == IF ss = <<>> THEN <<>> ELSE Head(ss) \o Flatten(Tail(ss))

\* C9: a run of on_mouseclick consumes every event sent since the run
\* before, however many, so the events consumed so far are all events ever
\* sent, each exactly once and in the order they were sent; after the run no
\* event is pending; when two events of the batch hit the same cell the cell
\* holds the amplitude of the later one.
C9_EventDraining ==
    [][OnMouseclickStep =>
        /\ Flatten(applied') = [k \in 1..clicks.count |-> k - 1]
        /\ Flatten(applied') =
                Flatten(applied) \o [k \in 1..(clicks.count - clicks.cursor) |->
                                        clicks.cursor + k - 1]
        /\ clicks'.cursor = clicks'.count
        /\ Events_unread(clicks') = <<>>
        /\ \A i, j \in 1..Len(queued) :
            (/\ i < j
             /\ in_range(rounded(queued[i].e))
             /\ rounded(queued[i].e) = rounded(queued[j].e)) =>
                u'[0][rounded(queued[j].e)[1]][rounded(queued[j].e)[2]]
                    = CLICK_AMPLITUDE]_vars

\* C9: one run of on_mouseclick took a batch of two events that hit the same
\* cell
C9_Witness ==
    /\ \E k \in 1..Len(applied) : Len(applied[k]) = 2
    /\ Len(clicks.old) = 1
    /\ Len(clicks.new) = 1
    /\ in_range(rounded(clicks.old[1].e))
    /\ rounded(clicks.old[1].e) = rounded(clicks.new[1].e)
    /\ clicks.cursor = clicks.count

\* C10, as stated: while time is paused no cell of any layer changes,
\* whatever point events arrive and whether or not the periodic source is
\* enabled, and the command that pauses or resumes changes no cell.
C10_PauseIsPure ==
    [][(paused \/ paused') => u' = u]_vars

(***************************************************************************)
(* Properties of the reset buttons and of setup (wave_2d_simulation).      *)
(***************************************************************************)
\* the run of on_ui_events that handles a Reset command
ResetStep ==
    /\ "on_ui_events" \in pending
    /\ "on_ui_events" \notin pending'
    /\ \E k \in 1..Len(Events_unread(ui_events)) :
          Events_unread(ui_events)[k].e = "Reset"

\* the run of setup
SetupStep == pending = {"setup"} /\ pending' # pending

\* the arrays of the grid are those of an Array3 of shape (3, dimx, dimy)
HasShape(g, dimx, dimy) ==
    /\ DOMAIN g = Layers
    /\ \A l \in Layers :
          /\ DOMAIN g[l] = 0..(dimx - 1)
          /\ \A x \in 0..(dimx - 1) : DOMAIN g[l][x] = 0..(dimy - 1)

\* C11: once a Reset command has been processed the grid is all zero and no
\* point-force event queued before the Reset is left to be applied after it:
\* the run of on_ui_events that handles a Reset leaves no unread
\* PlotClickedEvent that addresses a cell of the grid.
C11_ResetClearsPending ==
    [][ResetStep =>
          /\ AllZero(u')
          /\ \A k \in 1..Len(Events_unread(clicks')) :
                ~in_range(rounded(Events_unread(clicks')[k].e))]_vars

\* C12: setup and every Reset command leave a grid of shape (3, dimx, dimy)
\* whose cells are all zero, and after every step from setup on (solver
\* updates and "Reset values" included) the shape of the grid is
\* (3, dimx, dimy) of the parameters in force.
C12_GridInitialization ==
    [][/\ (SetupStep \/ ResetStep) =>
            /\ HasShape(u', parameters'.dimx, parameters'.dimy)
            /\ AllZero(u')
       /\ HasShape(u', parameters'.dimx, parameters'.dimy)]_vars

\* C12: a click was applied and a solver update ran, then a Reset command
\* was handled: the grid is all zero again
C12_Witness ==
    /\ ui_events.cursor >= 1
    /\ applied # <<>>
    /\ ticks >= 1
    /\ pending # {"setup"}
    /\ AllZero(u)
    /\ HasShape(u, parameters.dimx, parameters.dimy)

(***************************************************************************)
(* Properties of the configuration (simulation_plugin.rs constants).       *)
(***************************************************************************)
\* dimx <= 2 * margin or dimy <= 2 * margin
TooSmall == cfg.DIMX <= 2 * cfg.BOUNDARY \/ cfg.DIMY <= 2 * cfg.BOUNDARY

\* margin 1 or 4, and an interior of at least one cell on both axes
ValidConfig ==
    /\ cfg.BOUNDARY \in {1, 4}
    /\ cfg.DIMX > 2 * cfg.BOUNDARY
    /\ cfg.DIMY > 2 * cfg.BOUNDARY

\* update_wave panics in this step
PanicStep == ~panicked /\ panicked'

\* C13: a grid with dimx <= 2 * margin or dimy <= 2 * margin is refused
\* before any tick runs: in such a build no solver update completes (none
\* works on an empty interior) and none panics in its slices.
C13_TooSmallRejected ==
    [][TooSmall => (ticks' = ticks /\ ~panicked')]_vars

\* C14: a margin other than 1 and 4 fails before the tick mutates state:
\* the three layers are the same before and after the failing attempt.
C14_UnsupportedMarginFailsFast ==
    [][(PanicStep /\ cfg.BOUNDARY \notin {1, 4}) => u' = u]_vars

\* the largest grid side of the sweep over dimensions
MaxDim == 14

\* C15: with margin 1 or 4, dimx > 2 * margin and dimy > 2 * margin no tick
\* fails: no slice of the stencil, of the interior assignment or of the four
\* absorbing edges leaves [0, dim], the operands agree in shape, the cell of
\* the periodic source exists, and no system panics; the slices are in
\* range for every such grid up to MaxDim x MaxDim as well.
C15_TicksAreTotal ==
    /\ ValidConfig =>
        /\ ~panicked
        /\ ~stencil_panics(selected_terms(cfg.BOUNDARY), cfg.BOUNDARY,
                           cfg.DIMX, cfg.DIMY)
        /\ ~assign_panics(cfg.BOUNDARY, cfg.DIMX, cfg.DIMY)
        /\ ~absorbing_panics(cfg.DIMX, cfg.DIMY, cfg.BOUNDARY)
        /\ (4 * cfg.DIMX) \div 6 \in 0..(cfg.DIMX - 1)
        /\ (4 * cfg.DIMY) \div 6 \in 0..(cfg.DIMY - 1)
    /\ (ticks = 0 /\ timer = 0 /\ pending = TimerSystems) =>
        \A b \in {1, 4} : \A dx, dy \in (2 * b + 1)..MaxDim :
            /\ ~update_wave_panics(dx, dy, b, TRUE)
            /\ (4 * dx) \div 6 \in 0..(dx - 1)

\* C15: the smallest grid of margin 4 has gone through MaxTicks updates with
\* absorbing edges, the source applied
C15_Witness ==
    /\ ValidConfig
    /\ cfg.BOUNDARY = 4
    /\ <<cfg.DIMX, cfg.DIMY>> = <<9, 10>>
    /\ cfg.ABSORBING_BOUNDARY
    /\ ticks = MaxTicks
    /\ ~panicked
    /\ \E x \in 0..(cfg.DIMX - 1), y \in 0..(cfg.DIMY - 1) : u[0][x][y] # 0

(***************************************************************************)
(* Properties of the timer and of the layer rotation.                      *)
(***************************************************************************)
\* the step of a system whose tick of SimulationTimer makes it expire
TimerExpires ==
    /\ pending' # pending
    /\ pending # {}
    /\ Timer_tick(timer, delta).just_finished

\* C16: every expiration of the simulation timer causes exactly one solver
\* update, whatever the frame length and the order of the four systems:
\* a step in which the timer expires is a solver update, and a solver
\* update is a step in which the timer expires.
C16_OneUpdatePerExpiration ==
    [][(TimerExpires => SolverTick) /\ (SolverTick => TimerExpires)]_vars

\* C17: the two swaps of a tick are a cyclic permutation of the layers:
\* after them layer 2 holds layer 1 of before the tick, layer 1 holds layer 0
\* and layer 0 holds layer 2, in the same shape.  The tick shows it: layers
\* 1 and 2 after an update under the absorbing policy, and all three layers
\* after a tick that panics behind the swaps, are the rotated ones.
C17_RotationIsCyclic ==
    [][(SolverTick \/ PanicStep) =>
          /\ rotate(u)[2] = u[1]
          /\ rotate(u)[1] = u[0]
          /\ rotate(u)[0] = u[2]
          /\ HasShape(rotate(u), cfg.DIMX, cfg.DIMY)
          /\ (cfg.ABSORBING_BOUNDARY \/ PanicStep) =>
                (u'[2] = u[1] /\ u'[1] = u[0])
          /\ (PanicStep /\ ~ValidConfig /\ ~TooSmall) => u'[0] = u[2]]_vars

\* C17: three updates under the absorbing policy have left three layers
\* that differ from each other
C17_Witness ==
    /\ cfg.ABSORBING_BOUNDARY
    /\ ticks >= 3
    /\ u[0] # u[1]
    /\ u[1] # u[2]
    /\ u[0] # u[2]

(***************************************************************************)
(* Properties of the order-4 stencil and of the absorbing boundary         *)
(* (finite_difference.rs).                                                 *)
(***************************************************************************)
\* C18: the order-4 stencil weighs the neighbours at distance 4, 3, 2, 1 by
\* -1/560, 8/315, -1/5, 8/5 on both sides of both axes and the centre by
\* -410/72: a solver update of a build with margin 4 under the damping
\* policy leaves in every interior cell of layer 0 the decayed value of the
\* stencil with these weights.
C18_Order4Coefficients ==
    [][(SolverTick /\ cfg.BOUNDARY = 4 /\ ~cfg.ABSORBING_BOUNDARY) =>
          \A new_u \in {stencil(Laplace4DesignTerms, 4, cfg.DIMX, cfg.DIMY,
                                Tau(cfg.DIMX, cfg.DIMY), rotate(u))} :
              \A x \in 4..(cfg.DIMX - 5), y \in 4..(cfg.DIMY - 5) :
                  u'[0][x][y] = f32_mul(new_u[x - 4][y - 4], DECAY)]_vars

\* the cells of the k-th strip the absorbing boundary assigns (far x, near x,
\* far y, near y)
StripCells(k) ==
    LET e == absorbing_edges(cfg.DIMX, cfg.DIMY, cfg.BOUNDARY)[k]
    IN  (e[1]..(e[1] + e[3] - 1)) \X (e[2]..(e[2] + e[4] - 1))

\* the neighbour of c one cell towards the interior, seen from the k-th edge
Inward(k, c) ==
    << <<c[1] - 1, c[2]>>, <<c[1] + 1, c[2]>>,
       <<c[1], c[2] - 1>>, <<c[1], c[2] + 1>> >>[k]

\* (Kappa[c] - 1) / (Kappa[c] + 1)
MurFactor(c) ==
    RDiv(RSub(Kappa(cfg.DIMX, cfg.DIMY)[c[1]][c[2]], One),
         RAdd(Kappa(cfg.DIMX, cfg.DIMY)[c[1]][c[2]], One))

\* the grid a solver update has after the assignment of the stencil result
AfterStencil ==
    assign_interior(rotate(u), cfg.BOUNDARY, cfg.DIMX, cfg.DIMY,
                    stencil(selected_terms(cfg.BOUNDARY), cfg.BOUNDARY,
                            cfg.DIMX, cfg.DIMY, Tau(cfg.DIMX, cfg.DIMY), rotate(u)))

\* the k-th edge by the formula of the cell: L0 is layer 0 as the edge finds it
MurEdge(g, k) ==
    [g EXCEPT ![0] =
        [x \in DOMAIN g[0] |-> [y \in DOMAIN g[0][x] |->
            IF <<x, y>> \in StripCells(k)
            THEN LET i == Inward(k, <<x, y>>)
                 IN  f32_mul(g[0][i[1]][i[2]] - g[1][x][y], MurFactor(<<x, y>>))
                        + g[1][i[1]][i[2]]
            ELSE g[0][x][y]]]]

\* C19, as stated: the value an update under the absorbing policy leaves in
\* a boundary cell c with inward neighbour i is
\* ((Kappa[c] - 1) / (Kappa[c] + 1)) * (L2[i] - L1[c]) + L1[i], L2 and L1
\* the layers 2 and 1 after the rotation; no value of layer 0 enters.
C19_AbsorbingFormula ==
    [][(SolverTick /\ cfg.ABSORBING_BOUNDARY /\ ValidConfig) =>
          \A k \in 1..4 : \A c \in StripCells(k) :
              (\A j \in (k + 1)..4 : c \notin StripCells(j)) =>
                  u'[0][c[1]][c[2]] =
                      LET i == Inward(k, c)
                      IN  f32_mul(rotate(u)[2][i[1]][i[2]] - rotate(u)[1][c[1]][c[2]],
                                  MurFactor(c))
                            + rotate(u)[1][i[1]][i[2]]]_vars

\* C19, amended: every cell c of a strip is assigned
\* ((Kappa[c] - 1) / (Kappa[c] + 1)) * (L0[i] - L1[c]) + L1[i], where L1 is
\* layer 1 after the rotation and L0[i] is layer 0 at the inward neighbour
\* as the edge finds it: the result of the stencil in the interior, the
\* value of an earlier edge of the same update where one was assigned, and
\* layer 2 of before the update elsewhere.  The four edges are applied in
\* the order far x, near x, far y, near y; layers 1 and 2 are not written.
C19_AbsorbingFormulaLayer0 ==
    [][(SolverTick /\ cfg.ABSORBING_BOUNDARY) =>
          u' = MurEdge(MurEdge(MurEdge(MurEdge(AfterStencil, 1), 2), 3), 4)]_vars

\* C19: two updates under the absorbing policy of the 13 x 13 build have
\* left in a strip a value that is neither zero nor the source amplitude
C19_Witness ==
    /\ cfg.ABSORBING_BOUNDARY
    /\ <<cfg.DIMX, cfg.DIMY, cfg.BOUNDARY>> = <<13, 13, 4>>
    /\ ticks >= 2
    /\ \E k \in 1..4 : \E c \in StripCells(k) : u[0][c[1]][c[2]] \notin {0, AMPLITUDE}

\* the cells within margin m of an edge of the grid
Band(dimx, dimy, m) ==
    {c \in (0..(dimx - 1)) \X (0..(dimy - 1)) :
        c[1] < m \/ c[1] >= dimx - m \/ c[2] < m \/ c[2] >= dimy - m}

\* C20: an update under the absorbing policy writes four strips of layer 0,
\* each exactly margin wide and adjacent to its edge: x in
\* [dimx - margin, dimx), x in [0, margin), y in [dimy - margin, dimy),
\* y in [0, margin); together they assign every cell of the band, the four
\* corners and the outermost row and column of every side included.
C20_EdgeStripCoverage ==
    [][(SolverTick /\ cfg.ABSORBING_BOUNDARY /\ ValidConfig) =>
          \A w \in {[k \in 1..4 |->
                        edge_writes(cfg.DIMX, cfg.DIMY, cfg.BOUNDARY, k)]} :
              /\ {c[1] : c \in w[1]} =
                    (cfg.DIMX - cfg.BOUNDARY)..(cfg.DIMX - 1)
              /\ {c[1] : c \in w[2]} = 0..(cfg.BOUNDARY - 1)
              /\ {c[2] : c \in w[3]} =
                    (cfg.DIMY - cfg.BOUNDARY)..(cfg.DIMY - 1)
              /\ {c[2] : c \in w[4]} = 0..(cfg.BOUNDARY - 1)
              /\ Band(cfg.DIMX, cfg.DIMY, cfg.BOUNDARY)
                    \subseteq (w[1] \cup w[2] \cup w[3] \cup w[4])]_vars

\* C21: Fixed edge order.  An update under the absorbing policy assigns
\* the far x, the near x, the far y and the near y strip in this order;
\* every strip is computed from the grid the strip before it has left, a
\* cell of several strips ends the update with the value of the last of
\* them, and a cell of no strip keeps what the stencil assignment left.
C21_FixedEdgeOrder ==
    [][(SolverTick /\ cfg.ABSORBING_BOUNDARY) =>
          \A g0 \in {AfterStencil} : \A g1 \in {MurEdge(g0, 1)} :
          \A g2 \in {MurEdge(g1, 2)} : \A g3 \in {MurEdge(g2, 3)} :
          \A g4 \in {MurEdge(g3, 4)} :
              LET after == <<g1, g2, g3, g4>>
              IN  \A x \in 0..(cfg.DIMX - 1) : \A y \in 0..(cfg.DIMY - 1) :
                      LET covering == {k \in 1..4 : <<x, y>> \in StripCells(k)}
                      IN  IF covering = {}
                          THEN u'[0][x][y] = g0[0][x][y]
                          ELSE \E k \in covering :
                                  /\ \A j \in covering : j <= k
                                  /\ u'[0][x][y] = after[k][0][x][y]]_vars

\* C21: an update under the absorbing policy of a valid build has run, and
\* in the next one the far x and the far y strip assign different values to
\* a cell both of them cover
C21_Witness ==
    /\ cfg.ABSORBING_BOUNDARY
    /\ ValidConfig
    /\ ~panicked
    /\ ticks >= 1
    /\ \E c \in StripCells(1) \cap StripCells(3) :
          /\ u[0][c[1]][c[2]] # 0
          /\ MurEdge(AfterStencil, 1)[0][c[1]][c[2]]
                # MurEdge(MurEdge(MurEdge(AfterStencil, 1), 2), 3)[0][c[1]][c[2]]

\* C22: Damping fallback.  An update with the absorbing boundary disabled
\* ends by multiplying every cell of all three layers, the band included, by
\* the decay factor once, after the stencil assignment, and assigns no
\* strip; an update with the absorbing boundary enabled multiplies nothing:
\* layers 1 and 2 and the layer-0 cells outside the strips are the rotated
\* and assigned values themselves.
C22_DampingFallback ==
    [][SolverTick =>
          \A g0 \in {AfterStencil} :
              IF cfg.ABSORBING_BOUNDARY
              THEN /\ u'[1] = g0[1]
                   /\ u'[2] = g0[2]
                   /\ \A x \in 0..(cfg.DIMX - 1) : \A y \in 0..(cfg.DIMY - 1) :
                          (\A k \in 1..4 : <<x, y>> \notin StripCells(k)) =>
                              u'[0][x][y] = g0[0][x][y]
              ELSE \A l \in Layers :
                   \A x \in 0..(cfg.DIMX - 1) : \A y \in 0..(cfg.DIMY - 1) :
                       u'[l][x][y] = f32_mul(g0[l][x][y], DECAY)]_vars

\* C22: three updates under the damping policy have left a decayed value,
\* neither zero nor the source amplitude, in a band cell of every layer
C22_Witness ==
    /\ ~cfg.ABSORBING_BOUNDARY
    /\ ValidConfig
    /\ ticks >= 3
    /\ \E c \in Band(cfg.DIMX, cfg.DIMY, cfg.BOUNDARY) :
          \A l \in Layers : u[l][c[1]][c[2]] \notin {0, AMPLITUDE}

\* a step of the periodic source of the timer program
ForceStep ==
    /\ cfg.variant = "timer"
    /\ "apply_force" \in pending
    /\ "apply_force" \notin pending'

\* C23: Periodic source targets an interior cell.  In every accepted
\* configuration (margin 1 or 4, both dimensions above twice the margin)
\* the cell the periodic source writes lies outside the boundary band:
\* margin <= x < dimx - margin and margin <= y < dimy - margin.
C23_SourceIsInterior ==
    [][(ForceStep /\ ValidConfig) =>
          \A x \in 0..(cfg.DIMX - 1) : \A y \in 0..(cfg.DIMY - 1) :
              u'[0][x][y] # u[0][x][y] =>
                  /\ cfg.BOUNDARY <= x /\ x < cfg.DIMX - cfg.BOUNDARY
                  /\ cfg.BOUNDARY <= y /\ y < cfg.DIMY - cfg.BOUNDARY]_vars

\* the fields of squared and plain Courant number of a solver update: the
\* timer program has the resources Tau and Kappa, the wave_2d program
\* derives Tau from its parameters and has no step sizes of its own, so
\* that dt and dx are the unit steps
TauOfUpdate ==
    IF cfg.variant = "timer" THEN Tau(cfg.DIMX, cfg.DIMY) ELSE get_tau(parameters)
CourantOfUpdate ==
    IF cfg.variant = "timer" THEN RDiv(RMul(C, TS), HS)
    ELSE RDiv(RMul(parameters.wave_velocity, TS), HS)
DimsOfUpdate ==
    IF cfg.variant = "timer" THEN <<cfg.DIMX, cfg.DIMY>>
    ELSE <<parameters.dimx, parameters.dimy>>

\* C24: Coefficient fields.  In every solver variant the Tau field of a
\* solver update has shape dimx x dimy and holds ((velocity * dt) / dx)^2 in
\* every cell, the square of the Courant number Kappa holds, and not the
\* velocity itself.
C24_CoefficientFields ==
    [][SolverTick =>
          \A tau \in {TauOfUpdate} :
              /\ DOMAIN tau = 0..(DimsOfUpdate[1] - 1)
              /\ \A x \in DOMAIN tau :
                    /\ DOMAIN tau[x] = 0..(DimsOfUpdate[2] - 1)
                    /\ \A y \in DOMAIN tau[x] :
                          tau[x][y] = RMul(CourantOfUpdate, CourantOfUpdate)]_vars

\* a step of the presentation of the timer program (update_tiles)
PresentationStep ==
    /\ cfg.variant = "timer"
    /\ "update_tiles" \in pending
    /\ "update_tiles" \notin pending'

\* C25: Per-tick control-flow order.  In a frame in which a solver update
\* runs, the force injection of the frame has run before it and the
\* presentation reads layer 0 after it: no schedule runs the solver update
\* while the force injection of the frame is still to come, or the
\* presentation while the solver update of the frame is still to come.
C25_ControlFlowOrder ==
    [][/\ SolverTick => "apply_force" \notin pending
       /\ PresentationStep => "update_wave" \notin pending]_vars

\* C26: Parameter change forces reinitialization.  After the panel has
\* changed the wave velocity, the next solver update finds a grid
\* reallocated to zeros: no update applies the coefficients of one velocity
\* to samples an update under another velocity has computed.
C26_ParameterChangeReinitializes ==
    [][(cfg.variant = "wave2d" /\ SolverTick) =>
          history_velocity \in {<<>>, parameters.wave_velocity}]_vars

\* the stencil update_wave runs on the grid g
StencilOf(g) ==
    IF cfg.BOUNDARY = 1
    THEN update_with_laplace_operator_1(cfg.DIMX, cfg.DIMY, Tau(cfg.DIMX, cfg.DIMY), g)
    ELSE update_with_laplace_operator_4(cfg.DIMX, cfg.DIMY, Tau(cfg.DIMX, cfg.DIMY), g)

\* layers to put in the place of layer 0 of the grid g
Layer0Variants(g) ==
    {g[1], g[2], zeros3(cfg.DIMX, cfg.DIMY)[0],
     from_elem(cfg.DIMX, cfg.DIMY, AMPLITUDE),
     [x \in 0..(cfg.DIMX - 1) |-> [y \in 0..(cfg.DIMY - 1) |-> F(x) - F(2 * y)]]}

\* C27: Stencil independence from new values.  The values the stencil of a
\* solver update computes are a function of the layers 1 and 2 after the
\* rotation and of Tau: every grid that agrees with the rotated grid on
\* layers 1 and 2, whatever its layer 0, yields the same stencil result.
C27_StencilIndependence ==
    [][SolverTick =>
          \A r \in {rotate(u)} : \A new_u \in {StencilOf(r)} :
              \A l0 \in Layer0Variants(r) :
                  StencilOf([r EXCEPT ![0] = l0]) = new_u]_vars

\* C27: three updates of a valid build have run and each layer holds a
\* non-zero interior sample, so that the stencil of the last update ran on
\* a rotated grid whose three layers differ
C27_Witness ==
    /\ ValidConfig
    /\ ticks >= 3
    /\ u[0] # u[1] /\ u[1] # u[2] /\ u[0] # u[2]
    /\ \A l \in Layers :
          \E x \in cfg.BOUNDARY..(cfg.DIMX - cfg.BOUNDARY - 1) :
          \E y \in cfg.BOUNDARY..(cfg.DIMY - cfg.BOUNDARY - 1) : u[l][x][y] # 0

\* C28: Frame of the absorbing boundary update.  The absorbing boundary of
\* a solver update changes layer-0 cells of the band only (x < sz or
\* x >= dimx - sz or y < sz or y >= dimy - sz): every interior layer-0 cell
\* keeps the value the stencil assignment has just given it, and layers 1
\* and 2 are the same after the call as before it.
C28_AbsorbingFrame ==
    [][(SolverTick /\ cfg.ABSORBING_BOUNDARY /\ ValidConfig) =>
          \A g0 \in {AfterStencil} :
              /\ u'[1] = g0[1]
              /\ u'[2] = g0[2]
              /\ \A x \in cfg.BOUNDARY..(cfg.DIMX - cfg.BOUNDARY - 1) :
                 \A y \in cfg.BOUNDARY..(cfg.DIMY - cfg.BOUNDARY - 1) :
                     u'[0][x][y] = g0[0][x][y]]_vars

\* the cell the periodic source writes
SourceCell == <<(4 * cfg.DIMX) \div 6, (4 * cfg.DIMY) \div 6>>

\* C29: Fixed-zero edge under damping.  Under the damping policy every band
\* cell of every layer is zero after any number of updates as long as the
\* source does not write a band cell, whatever the interior holds; and the
\* solver never overwrites a band cell with a computed value: an update
\* moves the sample of a band cell from layer 2 to layer 0, from layer 0 to
\* layer 1 and from layer 1 to layer 2, each times the decay factor.
C29_FixedZeroEdge ==
    [][(cfg.variant = "timer" /\ ~cfg.ABSORBING_BOUNDARY /\ ValidConfig) =>
          \A c \in Band(cfg.DIMX, cfg.DIMY, cfg.BOUNDARY) :
              /\ SourceCell \notin Band(cfg.DIMX, cfg.DIMY, cfg.BOUNDARY) =>
                    \A l \in Layers : u'[l][c[1]][c[2]] = 0
              /\ SolverTick =>
                    /\ u'[0][c[1]][c[2]] = f32_mul(u[2][c[1]][c[2]], DECAY)
                    /\ u'[1][c[1]][c[2]] = f32_mul(u[0][c[1]][c[2]], DECAY)
                    /\ u'[2][c[1]][c[2]] = f32_mul(u[1][c[1]][c[2]], DECAY)]_vars

\* C29: three updates under the damping policy of the 13 x 13 build, whose
\* source is an interior cell, have carried the wave to an interior cell
\* next to the band, and every band cell of every layer is zero
C29_Witness ==
    /\ ~cfg.ABSORBING_BOUNDARY
    /\ <<cfg.DIMX, cfg.DIMY, cfg.BOUNDARY>> = <<13, 13, 4>>
    /\ ticks >= 3
    /\ \E y \in 4..8 : u[0][8][y] # 0 /\ u[0][4][y] # 0
    /\ \A c \in Band(13, 13, 4) : \A l \in Layers : u[l][c[1]][c[2]] = 0

\* C29: the source of the 9 x 10 build is a band cell, and three updates
\* under the damping policy have brought its sample back to layer 0, scaled
\* three times and not overwritten
C29_BandSampleRotates ==
    /\ ~cfg.ABSORBING_BOUNDARY
    /\ <<cfg.DIMX, cfg.DIMY, cfg.BOUNDARY>> = <<9, 10, 4>>
    /\ ticks >= 3
    /\ u[0][6][6] \notin {0, AMPLITUDE}

\* C30: Particle cap.  With max_entities left alone, whatever the order of
\* the spawner and the counter refresh within the frames, the number of
\* live particles never exceeds max_entities, the entities spawned in the
\* current frame included once they exist, and the subtraction
\* max_entities - number_of_particles never underflows.
C30_ParticleCap ==
    cfg.variant = "particle_mess" =>
        /\ particles.live <= parameters.max_entities
        /\ parameters.number_of_particles <= parameters.max_entities
        /\ ~panicked
====
